---- MODULE Spec2Model ----
(***************************************************************************)
(* Model of hash_unionfind::UnionFind (src/src/unionfind.rs): a union-find *)
(* keyed by arbitrary hashable identifiers.  The registry `parents` maps   *)
(* each inserted identifier to (leader-or-parent, rank).  Every public     *)
(* method is one atomic action (the structure is single threaded: the      *)
(* RefCell borrow is held for the whole call).                             *)
(*                                                                         *)
(* The IndexMap's insertion order is not observable through insert, size,  *)
(* find or union and is not part of the state.  Rank is usize; ranks are   *)
(* bounded by the number of inserted identifiers, so no addition wraps.    *)
(***************************************************************************)
EXTENDS Integers, Sequences, FiniteSets, TLC

\* Number of distinct identifiers the callers draw from.
NumIds == 4

\* The identifiers that callers insert (values of T).
Ids == 1..NumIds

\* An identifier that no caller inserts, like "x" in tests::test_on_str.
Absent == NumIds + 1

\* The identifiers that callers pass to find and union.
Args == Ids \cup {Absent}

\* Option::None as returned by find / union.
NotFound == 0

VARIABLES
    parents,    \* the registry: identifier -> [p: parent, r: rank]
    pre,        \* history: the registry as it was before the last call
    last,       \* history: the last call, its arguments and its result
    twice,      \* history: the last call repeats the call right before it
    prevRet,    \* history: the result of the call right before the last
    inserted,   \* history: identifiers that have been passed to insert
    related     \* history: equivalence generated by the effective unions

vars == <<parents, pre, last, twice, prevRet, inserted, related>>

----------------------------------------------------------------------------
\* The registry and the operations of UnionFind

\* One value of the map: (Rc<T>, Rank).
Entry(p, r) == [p |-> p, r |-> r]

\* UnionFind::new: the empty IndexMap.
EmptyMap == [k \in {} |-> Entry(k, 1)]

\* A size that counts the groups instead of the identifiers.
Size_CountRoots(ps) == Cardinality({k \in DOMAIN ps : ps[k].p = k})

\* UnionFind::size
Size(ps) == Cardinality(DOMAIN ps)

\* An insert without the contains_key early return: IndexMap::insert
\* overwrites the entry of a present key.
InsertOp_Overwrite(ps, t) ==
    [k \in DOMAIN ps \cup {t} |-> IF k = t THEN Entry(t, 1) ELSE ps[k]]

\* An insert that starts a new root at rank 0.
InsertOp_RankZero(ps, t) ==
    IF t \in DOMAIN ps
    THEN ps
    ELSE [k \in DOMAIN ps \cup {t} |-> IF k = t THEN Entry(t, 0) ELSE ps[k]]

\* UnionFind::insert
InsertOp(ps, t) ==
    IF t \in DOMAIN ps
    THEN ps
    ELSE [k \in DOMAIN ps \cup {t} |-> IF k = t THEN Entry(t, 1) ELSE ps[k]]

\* The elements of a Vec.
Range(s) == {s[i] : i \in 1..Len(s)}

\* The while loop of inner_find: follows parent references from `old` until
\* an entry that refers to itself, collecting the identifiers it leaves.
RECURSIVE Walk(_, _, _)
Walk(ps, old, to_update) ==
    IF ps[old].p = old
    THEN [current |-> ps[old].p, current_rank |-> ps[old].r,
          to_update |-> to_update]
    ELSE Walk(ps, ps[old].p, Append(to_update, old))

\* A compression that stores u itself instead of the root.
Compress_SelfParent(ps, to_update, current, current_rank) ==
    [k \in DOMAIN ps |->
        IF k \in Range(to_update) THEN Entry(k, current_rank) ELSE ps[k]]

\* A compression that leaves the rank of the rewritten entries alone.
Compress_KeepRank(ps, to_update, current, current_rank) ==
    [k \in DOMAIN ps |->
        IF k \in Range(to_update) THEN Entry(current, ps[k].r) ELSE ps[k]]

\* The for loop of inner_find: ps.insert(u, (current, current_rank)).
Compress(ps, to_update, current, current_rank) ==
    [k \in DOMAIN ps |->
        IF k \in Range(to_update) THEN Entry(current, current_rank) ELSE ps[k]]

\* An inner_find that creates the entry of a missing key (entry().or_insert)
\* before reporting it missing.
InnerFind_AutoInsert(ps, current) ==
    IF current \notin DOMAIN ps
    THEN [found |-> FALSE, leader |-> NotFound, rank |-> 0,
          ps |-> [k \in DOMAIN ps \cup {current} |->
                    IF k = current THEN Entry(current, 1) ELSE ps[k]]]
    ELSE LET w == Walk(ps, current, <<>>)
         IN  [found |-> TRUE, leader |-> w.current, rank |-> w.current_rank,
              ps |-> Compress(ps, w.to_update, w.current, w.current_rank)]

\* UnionFind::inner_find: the result (None when found is FALSE) and the
\* registry it leaves behind.
InnerFind(ps, current) ==
    IF current \notin DOMAIN ps
    THEN [found |-> FALSE, leader |-> NotFound, rank |-> 0, ps |-> ps]
    ELSE LET w == Walk(ps, current, <<>>)
         IN  [found |-> TRUE, leader |-> w.current, rank |-> w.current_rank,
              ps |-> Compress(ps, w.to_update, w.current, w.current_rank)]

\* UnionFind::find
FindOp(ps, current) ==
    LET f == InnerFind(ps, current)
    IN  [ret |-> f.leader, ps |-> f.ps]

\* A union that forgets to re-point the losing leader.
UnionOp_OnlyWinner(ps, x, y) ==
    LET fx == InnerFind(ps, x)
    IN  IF ~fx.found THEN [ret |-> NotFound, ps |-> fx.ps]
        ELSE
        LET fy == InnerFind(fx.ps, y)
        IN  IF ~fy.found THEN [ret |-> NotFound, ps |-> fy.ps]
            ELSE IF fx.leader = fy.leader THEN [ret |-> fx.leader, ps |-> fy.ps]
            ELSE
            LET swap      == fy.rank > fx.rank
                wx        == IF swap THEN fy.leader ELSE fx.leader
                wy        == IF swap THEN fx.leader ELSE fy.leader
                new_x_res == fy.ps[wx].p
                sum       == fx.rank + fy.rank
            IN  [ret |-> wx,
                 ps  |-> [fy.ps EXCEPT ![wx] = Entry(new_x_res, sum)]]

\* A union that swaps on equal ranks too (>= for >).
UnionOp_TieSecond(ps, x, y) ==
    LET fx == InnerFind(ps, x)
    IN  IF ~fx.found THEN [ret |-> NotFound, ps |-> fx.ps]
        ELSE
        LET fy == InnerFind(fx.ps, y)
        IN  IF ~fy.found THEN [ret |-> NotFound, ps |-> fy.ps]
            ELSE IF fx.leader = fy.leader THEN [ret |-> fx.leader, ps |-> fy.ps]
            ELSE
            LET swap      == fy.rank >= fx.rank
                wx        == IF swap THEN fy.leader ELSE fx.leader
                wy        == IF swap THEN fx.leader ELSE fy.leader
                new_x_res == fy.ps[wx].p
                sum       == fx.rank + fy.rank
            IN  [ret |-> wx,
                 ps  |-> [fy.ps EXCEPT ![wy] = Entry(new_x_res, sum),
                                       ![wx] = Entry(new_x_res, sum)]]

\* A union that answers with x's leader when y is missing.
UnionOp_IgnoreMissingY(ps, x, y) ==
    LET fx == InnerFind(ps, x)
    IN  IF ~fx.found THEN [ret |-> NotFound, ps |-> fx.ps]
        ELSE
        LET fy == InnerFind(fx.ps, y)
        IN  IF ~fy.found THEN [ret |-> fx.leader, ps |-> fy.ps]
            ELSE IF fx.leader = fy.leader THEN [ret |-> fx.leader, ps |-> fy.ps]
            ELSE
            LET swap      == fy.rank > fx.rank
                wx        == IF swap THEN fy.leader ELSE fx.leader
                wy        == IF swap THEN fx.leader ELSE fy.leader
                new_x_res == fy.ps[wx].p
                sum       == fx.rank + fy.rank
            IN  [ret |-> wx,
                 ps  |-> [fy.ps EXCEPT ![wy] = Entry(new_x_res, sum),
                                       ![wx] = Entry(new_x_res, sum)]]

\* A union that returns the leader of its first argument, swapped or not.
UnionOp_ReturnFirst(ps, x, y) ==
    LET fx == InnerFind(ps, x)
    IN  IF ~fx.found THEN [ret |-> NotFound, ps |-> fx.ps]
        ELSE
        LET fy == InnerFind(fx.ps, y)
        IN  IF ~fy.found THEN [ret |-> NotFound, ps |-> fy.ps]
            ELSE IF fx.leader = fy.leader THEN [ret |-> fx.leader, ps |-> fy.ps]
            ELSE
            LET swap      == fy.rank > fx.rank
                wx        == IF swap THEN fy.leader ELSE fx.leader
                wy        == IF swap THEN fx.leader ELSE fy.leader
                new_x_res == fy.ps[wx].p
                sum       == fx.rank + fy.rank
            IN  [ret |-> fx.leader,
                 ps  |-> [fy.ps EXCEPT ![wy] = Entry(new_x_res, sum),
                                       ![wx] = Entry(new_x_res, sum)]]

\* A union that resolves y before x.
UnionOp_YFirst(ps, x, y) ==
    LET fy == InnerFind(ps, y)
        fx == InnerFind(fy.ps, x)
    IN  IF ~fx.found \/ ~fy.found THEN [ret |-> NotFound, ps |-> fx.ps]
        ELSE IF fx.leader = fy.leader THEN [ret |-> fx.leader, ps |-> fx.ps]
        ELSE
        LET swap      == fy.rank > fx.rank
            wx        == IF swap THEN fy.leader ELSE fx.leader
            wy        == IF swap THEN fx.leader ELSE fy.leader
            new_x_res == fx.ps[wx].p
            sum       == fx.rank + fy.rank
        IN  [ret |-> wx,
             ps  |-> [fx.ps EXCEPT ![wy] = Entry(new_x_res, sum),
                                   ![wx] = Entry(new_x_res, sum)]]

\* A union that re-points the losing leader without giving it the summed rank.
UnionOp_LoserKeepsRank(ps, x, y) ==
    LET fx == InnerFind(ps, x)
    IN  IF ~fx.found THEN [ret |-> NotFound, ps |-> fx.ps]
        ELSE
        LET fy == InnerFind(fx.ps, y)
        IN  IF ~fy.found THEN [ret |-> NotFound, ps |-> fy.ps]
            ELSE IF fx.leader = fy.leader THEN [ret |-> fx.leader, ps |-> fy.ps]
            ELSE
            LET swap      == fy.rank > fx.rank
                wx        == IF swap THEN fy.leader ELSE fx.leader
                wy        == IF swap THEN fx.leader ELSE fy.leader
                new_x_res == fy.ps[wx].p
                sum       == fx.rank + fy.rank
            IN  [ret |-> wx,
                 ps  |-> [fy.ps EXCEPT ![wy] = Entry(new_x_res, fy.ps[wy].r),
                                       ![wx] = Entry(new_x_res, sum)]]

\* A union that points each of the two leaders at the other one.
UnionOp_CrossLink(ps, x, y) ==
    LET fx == InnerFind(ps, x)
    IN  IF ~fx.found THEN [ret |-> NotFound, ps |-> fx.ps]
        ELSE
        LET fy == InnerFind(fx.ps, y)
        IN  IF ~fy.found THEN [ret |-> NotFound, ps |-> fy.ps]
            ELSE IF fx.leader = fy.leader THEN [ret |-> fx.leader, ps |-> fy.ps]
            ELSE
            LET swap      == fy.rank > fx.rank
                wx        == IF swap THEN fy.leader ELSE fx.leader
                wy        == IF swap THEN fx.leader ELSE fy.leader
                new_x_res == fy.ps[wx].p
                sum       == fx.rank + fy.rank
            IN  [ret |-> wx,
                 ps  |-> [fy.ps EXCEPT ![wy] = Entry(new_x_res, sum),
                                       ![wx] = Entry(wy, sum)]]

\* A union that forgets to store the summed rank at the winning leader.
UnionOp_WinnerKeepsRank(ps, x, y) ==
    LET fx == InnerFind(ps, x)
    IN  IF ~fx.found THEN [ret |-> NotFound, ps |-> fx.ps]
        ELSE
        LET fy == InnerFind(fx.ps, y)
        IN  IF ~fy.found THEN [ret |-> NotFound, ps |-> fy.ps]
            ELSE IF fx.leader = fy.leader THEN [ret |-> fx.leader, ps |-> fy.ps]
            ELSE
            LET swap      == fy.rank > fx.rank
                wx        == IF swap THEN fy.leader ELSE fx.leader
                wy        == IF swap THEN fx.leader ELSE fy.leader
                new_x_res == fy.ps[wx].p
                sum       == fx.rank + fy.rank
            IN  [ret |-> wx,
                 ps  |-> [fy.ps EXCEPT ![wy] = Entry(new_x_res, sum)]]

\* A union without the x == y early return.
UnionOp_NoSameCheck(ps, x, y) ==
    LET fx == InnerFind(ps, x)
    IN  IF ~fx.found THEN [ret |-> NotFound, ps |-> fx.ps]
        ELSE
        LET fy == InnerFind(fx.ps, y)
        IN  IF ~fy.found THEN [ret |-> NotFound, ps |-> fy.ps]
            ELSE
            LET swap      == fy.rank > fx.rank
                wx        == IF swap THEN fy.leader ELSE fx.leader
                wy        == IF swap THEN fx.leader ELSE fy.leader
                new_x_res == fy.ps[wx].p
                sum       == fx.rank + fy.rank
            IN  [ret |-> wx,
                 ps  |-> [fy.ps EXCEPT ![wy] = Entry(new_x_res, sum),
                                       ![wx] = Entry(new_x_res, sum)]]

\* A union that swaps when y has the smaller rank (< for >).
UnionOp_SmallerWins(ps, x, y) ==
    LET fx == InnerFind(ps, x)
    IN  IF ~fx.found THEN [ret |-> NotFound, ps |-> fx.ps]
        ELSE
        LET fy == InnerFind(fx.ps, y)
        IN  IF ~fy.found THEN [ret |-> NotFound, ps |-> fy.ps]
            ELSE IF fx.leader = fy.leader THEN [ret |-> fx.leader, ps |-> fy.ps]
            ELSE
            LET swap      == fy.rank < fx.rank
                wx        == IF swap THEN fy.leader ELSE fx.leader
                wy        == IF swap THEN fx.leader ELSE fy.leader
                new_x_res == fy.ps[wx].p
                sum       == fx.rank + fy.rank
            IN  [ret |-> wx,
                 ps  |-> [fy.ps EXCEPT ![wy] = Entry(new_x_res, sum),
                                       ![wx] = Entry(new_x_res, sum)]]

\* A union that re-points every entry of the losing group at the winner.
UnionOp_EagerRelink(ps, x, y) ==
    LET fx == InnerFind(ps, x)
    IN  IF ~fx.found THEN [ret |-> NotFound, ps |-> fx.ps]
        ELSE
        LET fy == InnerFind(fx.ps, y)
        IN  IF ~fy.found THEN [ret |-> NotFound, ps |-> fy.ps]
            ELSE IF fx.leader = fy.leader THEN [ret |-> fx.leader, ps |-> fy.ps]
            ELSE
            LET swap      == fy.rank > fx.rank
                wx        == IF swap THEN fy.leader ELSE fx.leader
                wy        == IF swap THEN fx.leader ELSE fy.leader
                new_x_res == fy.ps[wx].p
                sum       == fx.rank + fy.rank
            IN  [ret |-> wx,
                 ps  |-> [k \in DOMAIN fy.ps |->
                            IF k = wx \/ Walk(fy.ps, k, <<>>).current = wy
                            THEN Entry(new_x_res, sum)
                            ELSE fy.ps[k]]]

\* A union that links the leader of x under y without looking y up.
UnionOp_LinkUnchecked(ps, x, y) ==
    LET fx == InnerFind(ps, x)
    IN  IF ~fx.found THEN [ret |-> NotFound, ps |-> fx.ps]
        ELSE IF fx.leader = y THEN [ret |-> y, ps |-> fx.ps]
        ELSE [ret |-> y,
              ps  |-> [fx.ps EXCEPT ![fx.leader] = Entry(y, fx.rank + 1)]]

\* UnionFind::union
UnionOp(ps, x, y) ==
    LET fx == InnerFind(ps, x)
    IN  IF ~fx.found THEN [ret |-> NotFound, ps |-> fx.ps]
        ELSE
        LET fy == InnerFind(fx.ps, y)
        IN  IF ~fy.found THEN [ret |-> NotFound, ps |-> fy.ps]
            ELSE IF fx.leader = fy.leader THEN [ret |-> fx.leader, ps |-> fy.ps]
            ELSE
            LET swap      == fy.rank > fx.rank
                wx        == IF swap THEN fy.leader ELSE fx.leader
                wy        == IF swap THEN fx.leader ELSE fy.leader
                new_x_res == fy.ps[wx].p
                sum       == fx.rank + fy.rank
            IN  [ret |-> wx,
                 ps  |-> [fy.ps EXCEPT ![wy] = Entry(new_x_res, sum),
                                       ![wx] = Entry(new_x_res, sum)]]

----------------------------------------------------------------------------
\* History of the calls

\* Reflexive, symmetric and transitive closure of R over the identifiers S.
RECURSIVE TransClose(_)
TransClose(R) ==
    LET R2 == R \cup {<<a, c>> \in (Ids \X Ids) :
                        \E b \in Ids : <<a, b>> \in R /\ <<b, c>> \in R}
    IN  IF R2 = R THEN R ELSE TransClose(R2)

EquivClosure(S, R) ==
    TransClose(R \cup {<<b, a>> : <<a, b>> \in R} \cup {<<a, a>> : a \in S})

Call(op, x, y, ret) == [op |-> op, x |-> x, y |-> y, ret |-> ret]

----------------------------------------------------------------------------
\* The state machine

Init ==
    /\ parents = EmptyMap
    /\ pre = EmptyMap
    /\ last = Call("new", NotFound, NotFound, NotFound)
    /\ twice = FALSE
    /\ prevRet = NotFound
    /\ inserted = {}
    /\ related = {}

Insert(t) ==
    /\ parents' = InsertOp(parents, t)
    /\ pre' = parents
    /\ last' = Call("insert", t, NotFound, NotFound)
    /\ twice' = (last.op = "insert" /\ last.x = t)
    /\ prevRet' = last.ret
    /\ inserted' = inserted \cup {t}
    /\ related' = EquivClosure(inserted', related)

Find(t) ==
    LET f == FindOp(parents, t)
    IN  /\ parents' = f.ps
        /\ pre' = parents
        /\ last' = Call("find", t, NotFound, f.ret)
        /\ twice' = (last.op = "find" /\ last.x = t)
        /\ prevRet' = last.ret
        /\ UNCHANGED <<inserted, related>>

Union(x, y) ==
    LET u == UnionOp(parents, x, y)
    IN  /\ parents' = u.ps
        /\ pre' = parents
        /\ last' = Call("union", x, y, u.ret)
        /\ twice' = (last.op = "union" /\ last.x = x /\ last.y = y)
        /\ prevRet' = last.ret
        /\ related' = IF x \in inserted /\ y \in inserted
                      THEN EquivClosure(inserted, related \cup {<<x, y>>})
                      ELSE related
        /\ UNCHANGED inserted

Next ==
    \/ \E t \in Ids : Insert(t)
    \/ \E t \in Args : Find(t)
    \/ \E x \in Args, y \in Args : Union(x, y)

Spec == Init /\ [][Next]_vars

----------------------------------------------------------------------------
\* Vocabulary of the properties

\* What find(id) answers on the registry ps.
Leader(ps, id) == FindOp(ps, id).ret

\* The entries on the chain of parent references that starts at id.
RECURSIVE ChainOf(_, _)
ChainOf(ps, id) ==
    IF ps[id].p = id THEN {id} ELSE {id} \cup ChainOf(ps, ps[id].p)

\* The self-referencing entry that ends the chain of id.
RootOf(ps, id) == CHOOSE k \in ChainOf(ps, id) : ps[k].p = k

\* The last call was a union on an identifier that was never inserted.
FailedUnion ==
    last.op = "union" /\ (last.x \notin inserted \/ last.y \notin inserted)

\* The last call was a union of two inserted identifiers of different groups.
MergingUnion ==
    /\ last.op = "union"
    /\ last.x \in inserted /\ last.y \in inserted
    /\ Leader(pre, last.x) # Leader(pre, last.y)

\* Every find answers after the last call what it answered before it.
SameLeaders == \A i \in DOMAIN pre : Leader(parents, i) = Leader(pre, i)

----------------------------------------------------------------------------
\* C1: two inserted identifiers have the same leader exactly when they are
\* related by the reflexive, symmetric, transitive closure of the pairs that
\* were passed to union while both were inserted.
C1_SameLeaderIffUnioned ==
    \A a \in inserted, b \in inserted :
        /\ Leader(parents, a) # NotFound
        /\ (Leader(parents, a) = Leader(parents, b)) <=> (<<a, b>> \in related)

\* Three identifiers joined by two unions, and a fourth one left apart.
C1_Witness ==
    /\ last.op = "union"
    /\ \E a \in inserted, b \in inserted, c \in inserted, d \in inserted :
        /\ Cardinality({a, b, c, d}) = 4
        /\ <<a, b>> \in related /\ <<b, c>> \in related
        /\ <<a, d>> \notin related
        /\ Leader(parents, a) = Leader(parents, c)
        /\ Leader(parents, a) # Leader(parents, d)

\* C2: a union of two different groups returns the leader of y when its rank
\* is strictly greater than the rank of the leader of x, the leader of x
\* otherwise, and the returned identifier is then the leader of every member
\* of both former groups.
C2_UnionPicksLeaderByRank ==
    MergingUnion =>
        LET lx == Leader(pre, last.x)
            ly == Leader(pre, last.y)
        IN  /\ last.ret = (IF pre[ly].r > pre[lx].r THEN ly ELSE lx)
            /\ \A m \in DOMAIN pre :
                 Leader(pre, m) \in {lx, ly} => Leader(parents, m) = last.ret

\* A merge won by the group of the second argument, which has three members.
C2_Witness ==
    /\ MergingUnion
    /\ pre[Leader(pre, last.y)].r > pre[Leader(pre, last.x)].r
    /\ last.ret = Leader(pre, last.y)
    /\ Cardinality({m \in DOMAIN pre : Leader(pre, m) = last.ret}) >= 3

\* C3: find answers not-found exactly for an identifier that was never
\* inserted, union exactly when one of its arguments was never inserted, and
\* every other answer is a leader.
C3_NotFoundIffNeverInserted ==
    /\ last.op = "find" => ((last.ret = NotFound) <=> (last.x \notin inserted))
    /\ last.op = "union" =>
         ((last.ret = NotFound) <=>
            (last.x \notin inserted \/ last.y \notin inserted))
    /\ (last.op \in {"find", "union"} /\ last.ret # NotFound) =>
         (last.ret \in inserted /\ parents[last.ret].p = last.ret)

\* union(x, x) on an identifier that is not its own leader.
C3_Witness ==
    /\ last.op = "union"
    /\ last.x = last.y
    /\ last.x \in inserted
    /\ last.ret \notin {NotFound, last.x}

\* C4 as stated: a union with a never inserted argument changes no entry.
C4_FailedUnionChangesNothing == FailedUnion => parents = pre

\* C4, amended: a union with a never inserted argument keeps the keys; when
\* x is the unknown one it changes no entry; when x is known it compresses
\* the chain of x (every non-root entry on it gets the leader of x and the
\* leader's rank) and changes no other entry.
C4_FailedUnionOnlyCompressesX ==
    FailedUnion =>
        /\ DOMAIN parents = DOMAIN pre
        /\ last.x \notin inserted => parents = pre
        /\ last.x \in inserted =>
             LET r == RootOf(pre, last.x)
             IN  \A k \in DOMAIN pre :
                    parents[k] = IF k \in ChainOf(pre, last.x) \ {r}
                                 THEN Entry(r, pre[r].r)
                                 ELSE pre[k]

\* union(known, unknown) where known sits two steps below its leader.
C4_Witness ==
    /\ FailedUnion
    /\ last.x \in inserted
    /\ Cardinality(ChainOf(pre, last.x)) >= 3
    /\ parents[last.x].p # pre[last.x].p

\* C5: a find or a union on a never inserted identifier leaves size() and
\* the leader of every inserted identifier as they were.
C5_UnknownKeyKeepsSizeAndLeaders ==
    ((last.op = "find" /\ last.x \notin inserted) \/ FailedUnion) =>
        /\ Size(parents) = Size(pre)
        /\ DOMAIN parents = DOMAIN pre
        /\ SameLeaders

\* union(unknown, known) on a structure that holds a group of two or more.
C5_Witness ==
    /\ FailedUnion
    /\ last.x \notin inserted
    /\ last.y \in inserted
    /\ Leader(parents, last.y) # last.y

\* C6: insert of a present identifier changes neither size(), nor an entry,
\* nor a find result; a merged identifier is not reset to a root of rank 1.
C6_InsertPresentIsNoOp ==
    (last.op = "insert" /\ last.x \in DOMAIN pre) =>
        /\ parents = pre
        /\ Size(parents) = Size(pre)
        /\ SameLeaders

\* insert of an identifier that sits below another leader.
C6_Witness ==
    /\ last.op = "insert"
    /\ last.x \in DOMAIN pre
    /\ pre[last.x].p # last.x

\* C7: size() is the number of distinct identifiers passed to insert; it
\* grows by one on the insert of a new identifier, never decreases, and is
\* left alone by find and union.
C7_SizeCountsInserted ==
    /\ Size(parents) = Cardinality(inserted)
    /\ Size(parents) >= Size(pre)
    /\ (last.op = "insert" /\ last.x \notin DOMAIN pre) =>
         Size(parents) = Size(pre) + 1
    /\ last.op \in {"find", "union"} => Size(parents) = Size(pre)

\* A union that merged two groups in a structure of three identifiers or more.
C7_Witness ==
    /\ MergingUnion
    /\ Size(parents) >= 3
    /\ Cardinality({k \in DOMAIN parents : parents[k].p = k}) < Size(parents)

\* C8: union(a, b) called twice in a row on inserted identifiers returns the
\* same leader both times, and the second call changes no find result.
C8_UnionTwiceSameLeader ==
    (twice /\ last.op = "union" /\ last.x \in inserted /\ last.y \in inserted)
        => (last.ret = prevRet /\ SameLeaders)

\* A second union(a, b) that still compresses a path the first call left.
C8_Witness ==
    /\ twice
    /\ last.op = "union"
    /\ last.x # last.y
    /\ last.ret # NotFound
    /\ parents # pre

\* C9: find is defined for every inserted identifier, and a find, an insert,
\* a failed union or a union inside one group changes no find result; a find
\* returns the leader reported before and after it, and a repeated find
\* returns what the first one returned.
C9_FindStable ==
    /\ \A i \in inserted : Leader(parents, i) # NotFound
    /\ (last.op \in {"find", "insert"} \/ (last.op = "union" /\ ~MergingUnion))
         => SameLeaders
    /\ (last.op = "find" /\ last.x \in inserted) =>
         (last.ret = Leader(pre, last.x) /\ last.ret = Leader(parents, last.x))
    /\ (twice /\ last.op = "find") => last.ret = prevRet

\* A repeated find on an identifier that is not its own leader.
C9_Witness ==
    /\ twice
    /\ last.op = "find"
    /\ last.x \in inserted
    /\ last.ret # last.x

\* C10: find(id) returns the self-referencing entry r that ends the chain of
\* id; afterwards every non-root entry of that chain has parent r and the
\* rank of r, and r and the entries off the chain are unchanged.
C10_FindCompressesChain ==
    (last.op = "find" /\ last.x \in DOMAIN pre) =>
        LET chain == ChainOf(pre, last.x)
            r     == RootOf(pre, last.x)
        IN  /\ last.ret = r
            /\ DOMAIN parents = DOMAIN pre
            /\ \A k \in chain \ {r} : parents[k] = Entry(r, pre[r].r)
            /\ parents[r] = pre[r]
            /\ \A k \in DOMAIN pre \ chain : parents[k] = pre[k]

\* find on an identifier two steps below its leader.
C10_Witness ==
    /\ last.op = "find"
    /\ last.x \in DOMAIN pre
    /\ Cardinality(ChainOf(pre, last.x)) >= 3
    /\ parents[last.x].p = last.ret
    /\ pre[last.x].p # last.ret

----------------------------------------------------------------------------
\* Vocabulary of the structural properties

\* The entry reached from k after n parent references (k itself when a
\* reference leaves the registry).
RECURSIVE Follow(_, _, _)
Follow(ps, k, n) ==
    IF n = 0 \/ k \notin DOMAIN ps THEN k ELSE Follow(ps, ps[k].p, n - 1)

\* The entries reached from k within as many steps as there are entries.
Reached(ps, k) == {Follow(ps, k, n) : n \in 0..Size(ps)}

\* The self-referencing entries of the registry.
Roots(ps) == {k \in DOMAIN ps : ps[k].p = k}

\* The number of parent references between k and its root.
Depth(ps, k) == Cardinality(ChainOf(ps, k)) - 1

\* The last call was a union of two inserted identifiers of one group.
SameGroupUnion ==
    /\ last.op = "union"
    /\ last.x \in inserted /\ last.y \in inserted
    /\ Leader(pre, last.x) = Leader(pre, last.y)

RECURSIVE Pow2(_)
Pow2(n) == IF n = 0 THEN 1 ELSE 2 * Pow2(n - 1)

----------------------------------------------------------------------------
\* C11 as stated: a union inside one group returns the leader and changes
\* no entry.
C11_SameGroupUnionChangesNothing ==
    SameGroupUnion => (last.ret = Leader(pre, last.x) /\ parents = pre)

\* C11, amended: a union inside one group returns the leader, changes no
\* find result, no key and no root entry; it compresses the chains of x and
\* of y (every non-root entry on them gets the leader and the leader's rank)
\* and changes no other entry.
C11_SameGroupUnionOnlyCompresses ==
    SameGroupUnion =>
        LET r     == RootOf(pre, last.x)
            chain == ChainOf(pre, last.x) \cup ChainOf(pre, last.y)
        IN  /\ last.ret = r
            /\ last.ret = Leader(pre, last.x)
            /\ SameLeaders
            /\ DOMAIN parents = DOMAIN pre
            /\ \A k \in DOMAIN pre :
                 parents[k] = IF k \in chain \ {r}
                              THEN Entry(r, pre[r].r)
                              ELSE pre[k]

\* A union inside one group whose second argument sits two steps below the
\* leader and is re-pointed by the call.
C11_Witness ==
    /\ SameGroupUnion
    /\ last.x # last.y
    /\ Depth(pre, last.y) >= 2
    /\ parents[last.y].p # pre[last.y].p

\* C12: after a merging union of leaders with ranks rx and ry the winning
\* leader still refers to itself with rank rx + ry and the losing leader
\* refers to the winner with rank rx + ry.
C12_MergeSumsRanks ==
    MergingUnion =>
        LET lx     == Leader(pre, last.x)
            ly     == Leader(pre, last.y)
            winner == last.ret
            loser  == IF last.ret = lx THEN ly ELSE lx
            sum    == pre[lx].r + pre[ly].r
        IN  /\ winner \in {lx, ly}
            /\ parents[winner] = Entry(winner, sum)
            /\ parents[loser] = Entry(winner, sum)

\* A merge of two groups of two.
C12_Witness ==
    /\ MergingUnion
    /\ pre[Leader(pre, last.x)].r = 2
    /\ pre[Leader(pre, last.y)].r = 2
    /\ parents[last.ret].r = 4

\* C13: parent references form no cycle but the self-loops of roots: from
\* every entry the references reach exactly one self-referencing entry
\* within as many steps as there are entries.
C13_NoCycles ==
    \A k \in DOMAIN parents :
        /\ Follow(parents, k, Size(parents)) \in Roots(parents)
        /\ Cardinality(Reached(parents, k) \cap Roots(parents)) = 1

\* A merged group with a chain of two parent references.
C13_Witness ==
    /\ MergingUnion
    /\ \E k \in DOMAIN parents :
         /\ Follow(parents, k, 1) \notin Roots(parents)
         /\ Follow(parents, k, 2) \in Roots(parents)

\* C14: the stored rank of an entry is at most the stored rank of its parent.
C14_RankMonotone ==
    \A k \in DOMAIN parents : parents[k].r <= parents[parents[k].p].r

\* An entry whose stored rank is strictly below the rank of its parent.
C14_Witness ==
    \E k \in DOMAIN parents :
        /\ parents[k].p # k
        /\ parents[k].r > 1
        /\ parents[k].r < parents[parents[k].p].r

\* C15: the rank stored at a root is the number of identifiers of its group,
\* and a find changes the rank of no root.
C15_RootRankIsGroupSize ==
    /\ \A r \in Roots(parents) :
         parents[r].r =
            Cardinality({k \in DOMAIN parents : Leader(parents, k) = r})
    /\ last.op = "find" =>
         \A r \in Roots(pre) : r \in Roots(parents) /\ parents[r].r = pre[r].r

\* A find that compressed a path in a group of four.
C15_Witness ==
    /\ last.op = "find"
    /\ parents # pre
    /\ last.ret # NotFound
    /\ parents[last.ret].r = 4

----------------------------------------------------------------------------
\* The entries a call writes

\* The entries inner_find stores with ps.insert: the collected to_update.
FindWrites(ps, t) ==
    IF t \in DOMAIN ps THEN Range(Walk(ps, t, <<>>).to_update) ELSE {}

\* The entries union stores: those of its two inner_find calls and, when
\* the leaders differ, the entries of the two leaders.
UnionWrites(ps, x, y) ==
    LET fx == InnerFind(ps, x)
        fy == InnerFind(fx.ps, y)
    IN  IF ~fx.found THEN {}
        ELSE IF ~fy.found THEN FindWrites(ps, x)
        ELSE FindWrites(ps, x) \cup FindWrites(fx.ps, y)
                \cup (IF fx.leader = fy.leader THEN {}
                      ELSE {fx.leader, fy.leader})

\* The entries the last call stored.
Written ==
    CASE last.op = "find"   -> FindWrites(pre, last.x)
      [] last.op = "union"  -> UnionWrites(pre, last.x, last.y)
      [] last.op = "insert" -> IF last.x \in DOMAIN pre THEN {} ELSE {last.x}
      [] OTHER              -> {}

\* The entries that referred to another entry before the last call.
LinkedBefore == DOMAIN pre \ Roots(pre)

\* The leader that lost the last merging union.
Loser ==
    IF last.ret = Leader(pre, last.x)
    THEN Leader(pre, last.y)
    ELSE Leader(pre, last.x)

\* Entries move from ROOT to LINKED only: a new entry is a root and only
\* insert creates one; a merging union unlinks the losing leader alone and
\* no other call unlinks a root; a linked entry stays linked.
RootToLinkedOnly ==
    /\ \A k \in DOMAIN parents \ DOMAIN pre :
         last.op = "insert" /\ k = last.x /\ k \in Roots(parents)
    /\ DOMAIN pre \subseteq DOMAIN parents
    /\ MergingUnion =>
         /\ Roots(pre) \ Roots(parents) = {Loser}
         /\ last.ret \in Roots(pre) \cap Roots(parents)
    /\ ~MergingUnion => Roots(pre) \subseteq Roots(parents)
    /\ \A k \in LinkedBefore : k \notin Roots(parents)

C17_ParentIsKey ==
    /\ \A k \in DOMAIN parents : parents[k].p \in DOMAIN parents
    /\ \A k \in DOMAIN parents : Reached(parents, k) \subseteq DOMAIN parents
    /\ last.ret # NotFound => last.ret \in DOMAIN parents

\* A merging union that looked both arguments up through a parent reference.
C17_Witness ==
    /\ MergingUnion
    /\ Depth(pre, last.x) >= 1
    /\ Depth(pre, last.y) >= 1
    /\ parents[Loser].p = last.ret

\* C18: an entry that is d parent references away from its root has a root
\* whose stored rank is at least 2^d.
C18_DepthLogRank ==
    \A k \in DOMAIN parents :
        Pow2(Depth(parents, k)) <= parents[RootOf(parents, k)].r

\* An entry two steps below a root of rank four: the bound is met.
C18_Witness ==
    \E k \in DOMAIN parents :
        /\ Depth(parents, k) = 2
        /\ parents[RootOf(parents, k)].r = 4

\* C19: a merging union keeps the keys and changes only the entries of the
\* two leaders and the non-root entries on the chains of x and of y, which
\* it re-points to their own leader of before the call.
C19_MergeFrame ==
    MergingUnion =>
        LET lx == Leader(pre, last.x)
            ly == Leader(pre, last.y)
            cx == ChainOf(pre, last.x) \ {lx}
            cy == ChainOf(pre, last.y) \ {ly}
        IN  /\ DOMAIN parents = DOMAIN pre
            /\ \A k \in cx : parents[k] = Entry(lx, pre[lx].r)
            /\ \A k \in cy : parents[k] = Entry(ly, pre[ly].r)
            /\ \A k \in DOMAIN pre \ (cx \cup cy \cup {lx, ly}) :
                 parents[k] = pre[k]

\* A merge beside a third group, with a member of a merged group that is
\* neither a leader nor on one of the two chains.
C19_Witness ==
    /\ MergingUnion
    /\ \E k \in DOMAIN pre :
         Leader(pre, k) \notin {Leader(pre, last.x), Leader(pre, last.y)}
    /\ \E k \in DOMAIN pre :
         /\ Leader(pre, k) \in {Leader(pre, last.x), Leader(pre, last.y)}
         /\ pre[k].p # k
         /\ k \notin ChainOf(pre, last.x) \cup ChainOf(pre, last.y)

====
